---- MODULE Spec2Model ----
(***************************************************************************)
(* Presence analyzer: the CSV loader (get_data), the lock and cache        *)
(* decorators around it, the weekday grouping and statistics helpers of    *)
(* utils.py, and the per-user report views of views.py.                    *)
(***************************************************************************)
EXTENDS Integers, Sequences, FiniteSets, TLC

VARIABLES
    \* ---- get_data body (utils.py 123-141) ----
    csvfile,       \* rows of the file behind app.config['DATA_CSV']
    readable,      \* whether open() of that path succeeds
    rowno,         \* number of rows the for loop has consumed
    data,          \* the local dict `data`
    locals,        \* bound names among user_id, date, start, end
    status,        \* "init", "reading", "returned", "IOError", "NameError"
    \* ---- lock / cache wrapped get_data (utils.py 22-55, 103-105) ----
    CACHE,         \* module dict CACHE: key -> [data, time]
    clock,         \* int(time.time() * 1000)
    disk,          \* current contents of the data file, or Missing
    pc,            \* per thread: position inside lock.inner / cache.inner
    lockobj,       \* per thread: state of the Lock object its call created
    current_time,  \* per thread: local current_time of cache.inner
    result,        \* per thread: local result of cache.inner
    opened,        \* per thread: rows read by the producer's open file
    outcome,       \* per thread: what the last finished call gave its caller
    calls,         \* calls started so far, over all threads
    invlog,        \* history: (result, current_time) of producer invocations
    \* ---- views (views.py 75-164) ----
    request,       \* the request being served
    response,      \* the response produced for it
    \* ---- statistics helpers (utils.py 144-215) ----
    stat           \* a helper call: function name, argument, result

vars == <<csvfile, readable, rowno, data, locals, status,
          CACHE, clock, disk, pc, lockobj, current_time, result, opened,
          outcome, calls, invlog, request, response, stat>>

loaderVars == <<csvfile, readable, rowno, data, locals, status>>
cacheVars  == <<CACHE, clock, disk, pc, lockobj, current_time, result, opened,
                outcome, calls, invlog>>
viewVars   == <<request, response>>
statVars   == <<stat>>

\* what an operation of one component leaves alone: the other components
notLoader == <<cacheVars, viewVars, statVars>>
notCache  == <<loaderVars, viewVars, statVars>>
notViews  == <<loaderVars, cacheVars, statVars>>
notStats  == <<loaderVars, cacheVars, viewVars>>

-----------------------------------------------------------------------------
(* Generic helpers: Python dicts are functions with a finite domain.       *)

EmptyDict == [k \in {} |-> 0]

Put(f, k, v) == [x \in (DOMAIN f) \cup {k} |-> IF x = k THEN v ELSE f[x]]

RECURSIVE SeqSum(_)
SeqSum(s) == IF s = <<>> THEN 0 ELSE Head(s) + SeqSum(Tail(s))

Range(s) == {s[k] : k \in DOMAIN s}

-----------------------------------------------------------------------------
(* Text fields are sequences of one-character strings.                     *)

DigitChars == <<"0", "1", "2", "3", "4", "5", "6", "7", "8", "9">>

IsDigit(c) == \E k \in DOMAIN DigitChars : DigitChars[k] = c

DigitVal(c) == (CHOOSE k \in DOMAIN DigitChars : DigitChars[k] = c) - 1

AllDigits(s) == Len(s) > 0 /\ \A k \in DOMAIN s : IsDigit(s[k])

RECURSIVE ToNat(_)
ToNat(s) ==
    IF s = <<>> THEN 0
    ELSE 10 * ToNat(SubSeq(s, 1, Len(s) - 1)) + DigitVal(s[Len(s)])

RECURSIVE Strip(_)
Strip(s) ==
    IF s = <<>> THEN s
    ELSE IF Head(s) = " " THEN Strip(Tail(s))
    ELSE IF s[Len(s)] = " " THEN Strip(SubSeq(s, 1, Len(s) - 1))
    ELSE s

RECURSIVE SplitOn(_, _)
SplitOn(s, sep) ==
    IF \A k \in DOMAIN s : s[k] # sep THEN <<s>>
    ELSE LET p == CHOOSE k \in DOMAIN s :
                      s[k] = sep /\ \A j \in 1..(k - 1) : s[j] # sep
         IN <<SubSeq(s, 1, p - 1)>> \o SplitOn(SubSeq(s, p + 1, Len(s)), sep)

Failed == [ok |-> FALSE]

\* int(row[0]): surrounding blanks, an optional sign, then decimal digits.
ParseInt(s) ==
    LET t    == Strip(s)
        neg  == t # <<>> /\ Head(t) = "-"
        body == IF t # <<>> /\ Head(t) \in {"+", "-"} THEN Tail(t) ELSE t
    IN IF AllDigits(body)
       THEN [ok |-> TRUE, val |-> IF neg THEN 0 - ToNat(body) ELSE ToNat(body)]
       ELSE Failed

IsLeap(y) == (y % 4 = 0) /\ ((y % 100 # 0) \/ (y % 400 = 0))

DaysInMonth(y, m) ==
    IF m = 2 THEN (IF IsLeap(y) THEN 29 ELSE 28)
    ELSE IF m \in {4, 6, 9, 11} THEN 30 ELSE 31

\* one or two digits, as the strptime directives %m %d %H %M %S accept
ShortNum(s) == Len(s) \in {1, 2} /\ AllDigits(s)

\* datetime.strptime(row[1], '%Y-%m-%d').date()
ParseDate(s) ==
    LET p == SplitOn(s, "-")
    IN IF Len(p) # 3 THEN Failed
       ELSE LET dd == IF Len(p[3]) = 2 /\ p[3][1] = " " THEN Tail(p[3]) ELSE p[3]
            IN IF ~(Len(p[1]) = 4 /\ AllDigits(p[1]) /\ ShortNum(p[2]) /\ ShortNum(dd))
               THEN Failed
               ELSE LET y == ToNat(p[1])
                        m == ToNat(p[2])
                        d == ToNat(dd)
                    IN IF y >= 1 /\ m \in 1..12 /\ d >= 1 /\ d <= DaysInMonth(y, m)
                       THEN [ok |-> TRUE, val |-> [year |-> y, month |-> m, day |-> d]]
                       ELSE Failed

\* datetime.strptime(row[2], '%H:%M:%S').time()
ParseTime(s) ==
    LET p == SplitOn(s, ":")
    IN IF Len(p) # 3 THEN Failed
       ELSE IF ~(ShortNum(p[1]) /\ ShortNum(p[2]) /\ ShortNum(p[3])) THEN Failed
       ELSE LET h  == ToNat(p[1])
                mi == ToNat(p[2])
                sc == ToNat(p[3])
            IN IF h <= 23 /\ mi <= 59 /\ sc <= 59
               THEN [ok |-> TRUE, val |-> [hour |-> h, minute |-> mi, second |-> sc]]
               ELSE Failed

-----------------------------------------------------------------------------
(* get_data: the body of the for loop, rows 127-139.                       *)

\* data.setdefault(user_id, {})[date] = {'start': start, 'end': end}
SetEntry(d, u, dt, s, e) ==
    LET inner == IF u \in DOMAIN d THEN d[u] ELSE EmptyDict
    IN Put(d, u, Put(inner, dt, [start |-> s, end |-> e]))

LocalNames == {"user_id", "date", "start", "end"}

\* the try block 131-136: assignments in order, abandoned at the first
\* ValueError; names assigned before the failure keep their new values and
\* the others keep whatever an earlier row left in them.  p holds the four
\* conversions of the row's fields.
Assigned(loc, p) ==
    LET done == IF ~p.user_id.ok THEN {}
                ELSE IF ~p.date.ok THEN {"user_id"}
                ELSE IF ~p.start.ok THEN {"user_id", "date"}
                ELSE IF ~p.end.ok THEN {"user_id", "date", "start"}
                ELSE LocalNames
    IN [k \in (DOMAIN loc) \cup done |-> IF k \in done THEN p[k].val ELSE loc[k]]

\* (CHOOSE over the image of a one-element set names a value that is
\* computed once, here and in RowStep, RunRows and get_data)
TryParse(loc, row) ==
    CHOOSE out \in {Assigned(loc, p) :
                       p \in {[user_id |-> ParseInt(row[1]),
                               date    |-> ParseDate(row[2]),
                               start   |-> ParseTime(row[3]),
                               end     |-> ParseTime(row[4])]}} : TRUE

\* line 139 with the locals loc: the store, or the NameError of an unbound name
StoreRow(d, loc) ==
    IF LocalNames \subseteq DOMAIN loc
    THEN [data   |-> SetEntry(d, loc.user_id, loc.date, loc.start, loc.end),
          locals |-> loc,
          status |-> "reading"]
    ELSE [data |-> d, locals |-> loc, status |-> "NameError"]

\* one iteration of the loop on state st = [data, locals, status]
RowStep(st, row) ==
    IF Len(row) # 4 THEN st
    ELSE CHOOSE nxt \in {StoreRow(st.data, loc) :
                            loc \in {TryParse(st.locals, row)}} : TRUE

RECURSIVE RunRows(_, _)
RunRows(st, rows) ==
    IF rows = <<>> \/ st.status # "reading" THEN st
    ELSE CHOOSE fin \in {RunRows(nxt, Tail(rows)) :
                            nxt \in {RowStep(st, Head(rows))}} : TRUE

\* get_data() on an opened file: the table, or the exception it raises
Outcome(fin) ==
    IF fin.status = "reading"
    THEN [kind |-> "table", table |-> fin.data]
    ELSE [kind |-> fin.status, table |-> EmptyDict]

get_data(rows) ==
    CHOOSE out \in {Outcome(fin) :
                       fin \in {RunRows([data |-> EmptyDict, locals |-> EmptyDict,
                                         status |-> "reading"], rows)}} : TRUE

-----------------------------------------------------------------------------
(* Statistics helpers, utils.py 144-215.  A Python float is modelled by    *)
(* the rational it denotes, [num, den] in lowest terms with den > 0.       *)

RECURSIVE GCD(_, _)
GCD(a, b) == IF b = 0 THEN a ELSE GCD(b, a % b)

Abs(n) == IF n < 0 THEN 0 - n ELSE n

Rat(n, d) ==
    LET g == GCD(Abs(n), d)
    IN [num |-> n \div g, den |-> d \div g]

\* seconds_since_midnight(time), line 201
seconds_since_midnight(t) == t.hour * 3600 + t.minute * 60 + t.second

\* variant of interval: an end before the start counts as no presence
intervalClamped(start, end) ==
    IF seconds_since_midnight(end) < seconds_since_midnight(start) THEN 0
    ELSE seconds_since_midnight(end) - seconds_since_midnight(start)

\* interval(start, end), line 208
interval(start, end) ==
    seconds_since_midnight(end) - seconds_since_midnight(start)

\* variant of mean: integer division, sum(items) / len(items) without float()
meanFloorDiv(items) ==
    IF Len(items) > 0 THEN Rat(SeqSum(items) \div Len(items), 1) ELSE Rat(0, 1)

\* mean(items), line 215: float(sum(items)) / len(items), or 0 when empty
mean(items) ==
    IF Len(items) > 0 THEN Rat(SeqSum(items), Len(items)) ELSE Rat(0, 1)

\* datetime.date.toordinal()
DaysBeforeYear(y) ==
    (y - 1) * 365 + ((y - 1) \div 4) - ((y - 1) \div 100) + ((y - 1) \div 400)

RECURSIVE DaysBeforeMonth(_, _)
DaysBeforeMonth(y, m) ==
    IF m = 1 THEN 0 ELSE DaysBeforeMonth(y, m - 1) + DaysInMonth(y, m - 1)

ToOrdinal(dt) == DaysBeforeYear(dt.year) + DaysBeforeMonth(dt.year, dt.month) + dt.day

\* datetime.date.weekday(): Monday is 0
Weekday(dt) == (ToOrdinal(dt) + 6) % 7

\* the orders in which `for date in items` may visit the keys of the dict
Orders(items) ==
    {o \in [1..Cardinality(DOMAIN items) -> DOMAIN items] :
        \A j, k \in DOMAIN o : o[j] = o[k] => j = k}

\* group_by_weekday(items), lines 148-153, visiting the dates in `order`
RECURSIVE group_by_weekday(_, _)
group_by_weekday(items, order) ==
    IF order = <<>> THEN [w \in 0..6 |-> <<>>]
    ELSE LET date == order[Len(order)]
             res  == group_by_weekday(items, SubSeq(order, 1, Len(order) - 1))
         IN [res EXCEPT ![Weekday(date)] =
                Append(@, interval(items[date].start, items[date].end))]

\* group_start_end_by_weekday(items), lines 160-168
RECURSIVE group_start_end_by_weekday(_, _)
group_start_end_by_weekday(items, order) ==
    IF order = <<>> THEN [w \in 0..6 |-> [start |-> <<>>, end |-> <<>>]]
    ELSE LET date == order[Len(order)]
             res  == group_start_end_by_weekday(items,
                                                SubSeq(order, 1, Len(order) - 1))
         IN [res EXCEPT ![Weekday(date)] =
                [start |-> Append(@.start, seconds_since_midnight(items[date].start)),
                 end   |-> Append(@.end, seconds_since_midnight(items[date].end))]]

\* datetime.timedelta keeps days, 0 <= seconds < 86400, 0 <= microseconds < 10^6
Million == 1000000

DaySeconds == 86400

TdNormalize(d, sec, us) ==
    LET s2 == sec + (us \div Million)
    IN [days |-> d + (s2 \div DaySeconds),
        seconds |-> s2 % DaySeconds,
        microseconds |-> us % Million]

\* timedelta(seconds=x): whole seconds plus the fraction rounded to a microsecond
TdFromSeconds(x) ==
    LET whole == IF x.num >= 0 THEN x.num \div x.den
                 ELSE 0 - ((0 - x.num) \div x.den)
        frac  == x.num - whole * x.den
        us    == IF frac >= 0 THEN (2 * frac * Million + x.den) \div (2 * x.den)
                 ELSE 0 - ((2 * (0 - frac) * Million + x.den) \div (2 * x.den))
    IN TdNormalize(0, whole, us)

TdAdd(a, b) ==
    TdNormalize(a.days + b.days, a.seconds + b.seconds,
                a.microseconds + b.microseconds)

TdSub(a, b) ==
    TdNormalize(a.days - b.days, a.seconds - b.seconds,
                a.microseconds - b.microseconds)

\* str(n) for an int
RECURSIVE NatToStr(_)
NatToStr(n) ==
    IF n < 10 THEN <<DigitChars[n + 1]>>
    ELSE NatToStr(n \div 10) \o <<DigitChars[(n % 10) + 1]>>

IntToStr(n) == IF n < 0 THEN <<"-">> \o NatToStr(0 - n) ELSE NatToStr(n)

RECURSIVE Pow10(_)
Pow10(k) == IF k = 0 THEN 1 ELSE 10 * Pow10(k - 1)

\* float(s) for s of the shape [-]digits.digits
ParseFloat(s) ==
    LET p    == SplitOn(s, ".")
        neg  == Head(p[1]) = "-"
        ip   == IF neg THEN Tail(p[1]) ELSE p[1]
        mag  == ToNat(ip) * Pow10(Len(p[2])) + ToNat(p[2])
    IN Rat(IF neg THEN 0 - mag ELSE mag, Pow10(Len(p[2])))

\* variant of sum_timedelta: line 177 left out, the days are not counted
sum_timedeltaNoDays(td) ==
    LET hours   == td.seconds \div 3600
        minutes == (td.seconds % 3600) \div 60
    IN ParseFloat(IntToStr(hours) \o <<".">> \o IntToStr(minutes))

\* sum_timedelta(interval), lines 175-178
sum_timedelta(td) ==
    LET hours   == (td.seconds \div 3600) + td.days * 24
        minutes == (td.seconds % 3600) \div 60
    IN ParseFloat(IntToStr(hours) \o <<".">> \o IntToStr(minutes))

\* the loop of sum_intervals, lines 189-190
RECURSIVE WorkedInterval(_)
WorkedInterval(items) ==
    IF items = <<>> THEN TdNormalize(0, 0, 0)
    ELSE TdAdd(WorkedInterval(SubSeq(items, 1, Len(items) - 1)),
               TdFromSeconds(items[Len(items)]))

\* sum_intervals(items), lines 186-194; items are floats (or ints)
sum_intervals(items) ==
    LET worked_interval == WorkedInterval(items)
        whole_week      == TdNormalize(0, 168 * 3600, 0)
        off_interval    == TdSub(whole_week, worked_interval)
    IN <<sum_timedelta(worked_interval), sum_timedelta(off_interval)>>

-----------------------------------------------------------------------------
(* Rows of the data file.  A row is the list of its comma separated fields *)
(* as csv.reader yields them.                                              *)

RowA ==
    <<<<"1", "0">>,
      <<"2", "0", "1", "3", "-", "0", "9", "-", "1", "0">>,
      <<"0", "9", ":", "3", "9", ":", "0", "5">>,
      <<"1", "7", ":", "5", "9", ":", "5", "2">>>>

RowB ==
    <<<<"1", "1">>,
      <<"2", "0", "1", "3", "-", "0", "9", "-", "1", "1">>,
      <<"0", "9", ":", "0", "0", ":", "0", "0">>,
      <<"0", "8", ":", "1", "5", ":", "0", "0">>>>

RowA2 ==
    <<<<"1", "0">>,
      <<"2", "0", "1", "3", "-", "0", "9", "-", "1", "0">>,
      <<"1", "0", ":", "0", "0", ":", "0", "0">>,
      <<"1", "1", ":", "3", "0", ":", "0", "0">>>>

RowHeader ==
    <<<<"u", "s", "e", "r">>,
      <<"d", "a", "t", "e">>,
      <<"i", "n">>,
      <<"o", "u", "t">>>>

RowBadDate ==
    <<<<"1", "2">>,
      <<"2", "0", "1", "3", "-", "1", "3", "-", "4", "0">>,
      <<"0", "8", ":", "0", "0", ":", "0", "0">>,
      <<"1", "6", ":", "0", "0", ":", "0", "0">>>>

RowBadStart ==
    <<<<"1", "1">>,
      <<"2", "0", "1", "3", "-", "9", "-", "1", "2">>,
      <<"9", ":", "0", "0">>,
      <<"1", "6", ":", "0", "0", ":", "0", "0">>>>

RowBadEnd ==
    <<<<" ", "1", "0">>,
      <<"2", "0", "1", "3", "-", "0", "9", "-", "1", "6">>,
      <<"0", "7", ":", "0", "5", ":", "0", "0">>,
      <<"2", "4", ":", "0", "0", ":", "0", "0">>>>

RowFooter ==
    <<<<"t", "o", "t", "a", "l">>,
      <<"2">>>>

RowC ==
    <<<<"1", "0">>,
      <<"2", "0", "1", "3", "-", "0", "9", "-", "1", "7">>,
      <<"0", "8", ":", "0", "0", ":", "0", "0">>,
      <<"1", "6", ":", "0", "0", ":", "0", "1">>>>

RowABadEnd ==
    <<<<"1", "0">>,
      <<"2", "0", "1", "3", "-", "0", "9", "-", "1", "0">>,
      <<"0", "7", ":", "0", "5", ":", "0", "0">>,
      <<"2", "4", ":", "0", "0", ":", "0", "0">>>>

RowSet == {RowA, RowB, RowA2, RowC, RowHeader, RowBadDate, RowBadStart, RowBadEnd,
           RowABadEnd, RowFooter}

MaxRows == 3

FilesUpTo(n) == UNION {[1..k -> RowSet] : k \in 0..n}

-----------------------------------------------------------------------------
(* get_data run row by row.                                                *)

LoaderIdle ==
    /\ csvfile = <<>> /\ readable = TRUE /\ rowno = 0
    /\ data = EmptyDict /\ locals = EmptyDict /\ status = "init"

LoaderInit ==
    /\ csvfile \in FilesUpTo(MaxRows)
    /\ readable \in BOOLEAN
    /\ rowno = 0
    /\ data = EmptyDict
    /\ locals = EmptyDict
    /\ status = "init"

\* 123-125: data = {} and open() succeeds
OpenFile ==
    /\ status = "init" /\ readable
    /\ status' = "reading"
    /\ data' = EmptyDict
    /\ UNCHANGED <<csvfile, readable, rowno, locals>>
    /\ UNCHANGED notLoader

\* 124: open() raises IOError, which get_data does not catch
OpenFails ==
    /\ status = "init" /\ ~readable
    /\ status' = "IOError"
    /\ UNCHANGED <<csvfile, readable, rowno, data, locals>>
    /\ UNCHANGED notLoader

\* 127-129: a row whose field count is not 4
SkipRow ==
    /\ status = "reading" /\ rowno < Len(csvfile)
    /\ Len(csvfile[rowno + 1]) # 4
    /\ rowno' = rowno + 1
    /\ UNCHANGED <<csvfile, readable, data, locals, status>>
    /\ UNCHANGED notLoader

\* 131-139: a row of 4 fields
ParseRow ==
    /\ status = "reading" /\ rowno < Len(csvfile)
    /\ Len(csvfile[rowno + 1]) = 4
    /\ LET st == RowStep([data |-> data, locals |-> locals, status |-> status],
                         csvfile[rowno + 1])
       IN /\ data' = st.data
          /\ locals' = st.locals
          /\ status' = st.status
    /\ rowno' = rowno + 1
    /\ UNCHANGED <<csvfile, readable>>
    /\ UNCHANGED notLoader

\* 141: the loop is exhausted
ReturnData ==
    /\ status = "reading" /\ rowno = Len(csvfile)
    /\ status' = "returned"
    /\ UNCHANGED <<csvfile, readable, rowno, data, locals>>
    /\ UNCHANGED notLoader

LoaderNext == OpenFile \/ OpenFails \/ SkipRow \/ ParseRow \/ ReturnData

-----------------------------------------------------------------------------
(* The wrapped get_data: lock.inner (29-32) around cache.inner (42-53)     *)
(* around the loader, called by concurrent request threads.                *)

Threads == {"t1", "t2"}

MaxCalls == 3

\* the clock stops advancing when it reaches MaxClock
MaxClock == 900

\* @cache(600): milliseconds
Duration == 600

\* hashlib.sha1(function.__name__).hexdigest(): one key per wrapped function
Key == "get_data"

\* granularity of the modelled clock
TickStep == Duration \div 2

DiskFiles == {<<RowA>>, <<RowA, RowB>>, <<RowHeader, RowA>>}

\* get_data() on each of the files the disk can hold
DiskLoad == [f \in DiskFiles |-> get_data(f)]

NoOutcome == [kind |-> "none", table |-> EmptyDict, via |-> "none"]

\* variant of CacheFresh: an entry exactly `duration` old is still served
CacheFreshLate(c, now) == Key \in DOMAIN c /\ now - c[Key].time <= Duration

\* line 45: key in CACHE and current_time - CACHE[key]['time'] < duration
CacheFresh(c, now) == Key \in DOMAIN c /\ now - c[Key].time < Duration

\* variant of StoredEntry: the time is read again when the entry is stored
StoredEntryAtStore(res, now) == [data |-> res, time |-> clock]

\* lines 49-52: the dict literal stored under the key
StoredEntry(res, now) == [data |-> res, time |-> now]

\* variant of CachedData: the cached branch reads the file again
CachedDataReloaded(c) == IF disk.ok THEN DiskLoad[disk.rows].table ELSE EmptyDict

\* line 46: return CACHE[key]['data']
CachedData(c) == c[Key].data

CacheIdle ==
    /\ CACHE = EmptyDict /\ clock = 0 /\ disk = [ok |-> TRUE, rows |-> <<>>]
    /\ pc = [t \in Threads |-> "idle"]
    /\ lockobj = [t \in Threads |-> "none"]
    /\ current_time = [t \in Threads |-> 0]
    /\ result = [t \in Threads |-> EmptyDict]
    /\ opened = [t \in Threads |-> <<>>]
    /\ outcome = [t \in Threads |-> NoOutcome]
    /\ calls = 0
    /\ invlog = {}

\* CACHE = {} at import (line 22); the clock and the file are the environment
CacheInit ==
    /\ CACHE = EmptyDict
    /\ clock = 0
    /\ disk \in [ok : {TRUE}, rows : DiskFiles] \cup {[ok |-> FALSE, rows |-> <<>>]}
    /\ pc = [t \in Threads |-> "idle"]
    /\ lockobj = [t \in Threads |-> "none"]
    /\ current_time = [t \in Threads |-> 0]
    /\ result = [t \in Threads |-> EmptyDict]
    /\ opened = [t \in Threads |-> <<>>]
    /\ outcome = [t \in Threads |-> NoOutcome]
    /\ calls = 0
    /\ invlog = {}

\* leaving the with block of lock.inner, by return or by exception: the
\* thread's Lock object is released and the frame's locals are gone
Leave(t, out) ==
    /\ pc' = [pc EXCEPT ![t] = "idle"]
    /\ lockobj' = [lockobj EXCEPT ![t] = "none"]
    /\ current_time' = [current_time EXCEPT ![t] = 0]
    /\ result' = [result EXCEPT ![t] = EmptyDict]
    /\ opened' = [opened EXCEPT ![t] = <<>>]
    /\ outcome' = [outcome EXCEPT ![t] = out]

\* line 31: with threading.Lock(): a new Lock object is constructed by this
\* call and acquired; it blocks only if that same object is already locked
EnterLock(t) ==
    /\ pc[t] = "idle" /\ calls < MaxCalls
    /\ lockobj[t] # "locked"
    /\ lockobj' = [lockobj EXCEPT ![t] = "locked"]
    /\ pc' = [pc EXCEPT ![t] = "inner"]
    /\ calls' = calls + 1
    /\ outcome' = [outcome EXCEPT ![t] = NoOutcome]
    /\ UNCHANGED <<CACHE, clock, disk, current_time, result, opened, invlog>>
    /\ UNCHANGED notCache

\* lines 43-44
ReadClock(t) ==
    /\ pc[t] = "inner"
    /\ current_time' = [current_time EXCEPT ![t] = clock]
    /\ pc' = [pc EXCEPT ![t] = "check"]
    /\ UNCHANGED <<CACHE, clock, disk, lockobj, result, opened, outcome, calls,
                   invlog>>
    /\ UNCHANGED notCache

\* line 45
CheckCache(t) ==
    /\ pc[t] = "check"
    /\ pc' = [pc EXCEPT ![t] = IF CacheFresh(CACHE, current_time[t])
                               THEN "hit" ELSE "call"]
    /\ UNCHANGED <<CACHE, clock, disk, lockobj, current_time, result, opened,
                   outcome, calls, invlog>>
    /\ UNCHANGED notCache

\* line 46
ReturnCached(t) ==
    /\ pc[t] = "hit"
    /\ Leave(t, [kind |-> "table", table |-> CachedData(CACHE), via |-> "cache"])
    /\ UNCHANGED <<CACHE, clock, disk, calls, invlog>>
    /\ UNCHANGED notCache

\* line 48 into get_data, line 124: open() succeeds
OpenCsv(t) ==
    /\ pc[t] = "call" /\ disk.ok
    /\ opened' = [opened EXCEPT ![t] = disk.rows]
    /\ pc' = [pc EXCEPT ![t] = "reading"]
    /\ UNCHANGED <<CACHE, clock, disk, lockobj, current_time, result, outcome,
                   calls, invlog>>
    /\ UNCHANGED notCache

\* variant of OpenCsvFails: the failure is swallowed and the producer hands
\* back the empty table it started with
OpenCsvFailsEmptyTable(t) ==
    /\ pc[t] = "call" /\ ~disk.ok
    /\ result' = [result EXCEPT ![t] = EmptyDict]
    /\ pc' = [pc EXCEPT ![t] = "store"]
    /\ UNCHANGED <<CACHE, clock, disk, lockobj, current_time, opened, outcome,
                   calls, invlog>>
    /\ UNCHANGED notCache

\* line 124: open() raises IOError; it propagates through both wrappers
OpenCsvFails(t) ==
    /\ pc[t] = "call" /\ ~disk.ok
    /\ Leave(t, [kind |-> "IOError", table |-> EmptyDict, via |-> "producer"])
    /\ UNCHANGED <<CACHE, clock, disk, calls, invlog>>
    /\ UNCHANGED notCache

\* lines 126-141: the loop runs to the end and get_data returns the table
LoadRows(t) ==
    /\ pc[t] = "reading"
    /\ DiskLoad[opened[t]].kind = "table"
    /\ result' = [result EXCEPT ![t] = DiskLoad[opened[t]].table]
    /\ invlog' = invlog \cup {[data |-> DiskLoad[opened[t]].table,
                               time |-> current_time[t]]}
    /\ pc' = [pc EXCEPT ![t] = "store"]
    /\ UNCHANGED <<CACHE, clock, disk, lockobj, current_time, opened, outcome,
                   calls>>
    /\ UNCHANGED notCache

\* line 139 raises on an unbound local; it propagates through both wrappers
LoadRowsRaises(t) ==
    /\ pc[t] = "reading"
    /\ DiskLoad[opened[t]].kind # "table"
    /\ Leave(t, [kind |-> DiskLoad[opened[t]].kind, table |-> EmptyDict,
                 via |-> "producer"])
    /\ UNCHANGED <<CACHE, clock, disk, calls, invlog>>
    /\ UNCHANGED notCache

\* lines 49-52
Store(t) ==
    /\ pc[t] = "store"
    /\ CACHE' = Put(CACHE, Key, StoredEntry(result[t], current_time[t]))
    /\ pc' = [pc EXCEPT ![t] = "return"]
    /\ UNCHANGED <<clock, disk, lockobj, current_time, result, opened, outcome,
                   calls, invlog>>
    /\ UNCHANGED notCache

\* line 53
ReturnResult(t) ==
    /\ pc[t] = "return"
    /\ Leave(t, [kind |-> "table", table |-> result[t], via |-> "producer"])
    /\ UNCHANGED <<CACHE, clock, disk, calls, invlog>>
    /\ UNCHANGED notCache

\* the wall clock read by time.time() advances
Tick ==
    /\ clock < MaxClock
    /\ clock' = clock + TickStep
    /\ UNCHANGED <<CACHE, disk, pc, lockobj, current_time, result, opened,
                   outcome, calls, invlog>>
    /\ UNCHANGED notCache

\* the data file is replaced by another one
WriteCsv(f) ==
    /\ disk # [ok |-> TRUE, rows |-> f]
    /\ disk' = [ok |-> TRUE, rows |-> f]
    /\ UNCHANGED <<CACHE, clock, pc, lockobj, current_time, result, opened,
                   outcome, calls, invlog>>
    /\ UNCHANGED notCache

\* the data file is removed
RemoveCsv ==
    /\ disk.ok
    /\ disk' = [ok |-> FALSE, rows |-> <<>>]
    /\ UNCHANGED <<CACHE, clock, pc, lockobj, current_time, result, opened,
                   outcome, calls, invlog>>
    /\ UNCHANGED notCache

CacheNext ==
    \/ \E t \in Threads : EnterLock(t)
    \/ \E t \in Threads : ReadClock(t)
    \/ \E t \in Threads : CheckCache(t)
    \/ \E t \in Threads : ReturnCached(t)
    \/ \E t \in Threads : OpenCsv(t)
    \/ \E t \in Threads : OpenCsvFails(t)
    \/ \E t \in Threads : LoadRows(t)
    \/ \E t \in Threads : LoadRowsRaises(t)
    \/ \E t \in Threads : Store(t)
    \/ \E t \in Threads : ReturnResult(t)
    \/ Tick
    \/ \E f \in DiskFiles : WriteCsv(f)
    \/ RemoveCsv

-----------------------------------------------------------------------------
(* Views, views.py 75-164, each wrapped by jsonify (utils.py 62-70).       *)

Views == {"mean_time_weekday", "presence_weekday", "presence_start_end",
          "weekly_mean_presence"}

\* <int:user_id> of the route
UserIds == {9, 10, 11, 12}

\* calendar.day_abbr
day_abbr == <<"Mon", "Tue", "Wed", "Thu", "Fri", "Sat", "Sun">>

NoResponse ==
    [status |-> 0, mimetype |-> "", body |-> [type |-> "none", value |-> <<>>]]

\* Response(dumps(value), mimetype='application/json'): status 200
jsonify(type, value) ==
    [status |-> 200, mimetype |-> "application/json",
     body |-> [type |-> type, value |-> value]]

\* an exception of get_data leaves the view: the server answers 500
ServerError(kind) ==
    [status |-> 500, mimetype |-> "text/html",
     body |-> [type |-> "error", value |-> kind]]

\* variant of NotFound: abort(404) instead of the JSON payload
NotFoundAbort(user_id) ==
    [status |-> 404, mimetype |-> "text/html",
     body |-> [type |-> "error", value |-> "Not Found"]]

\* the dict returned when user_id is not in data, through jsonify
NotFound(user_id) ==
    jsonify("object", [message |-> <<"User ", IntToStr(user_id), " not found!">>,
                       status  |-> 404])

\* the orders in which the view's grouping may visit the user's dates
UserOrders(d, user_id) ==
    IF user_id \in DOMAIN d THEN Orders(d[user_id]) ELSE {<<>>}

\* lines 81-93, on the table d that get_data() returned
mean_time_weekday_view(d, user_id, order) ==
    IF user_id \notin DOMAIN d THEN NotFound(user_id)
    ELSE LET weekdays == group_by_weekday(d[user_id], order)
         IN jsonify("array",
                    [w \in 1..7 |-> <<day_abbr[w], mean(weekdays[w - 1])>>])

\* lines 102-116
presence_weekday_view(d, user_id, order) ==
    IF user_id \notin DOMAIN d THEN NotFound(user_id)
    ELSE LET weekdays == group_by_weekday(d[user_id], order)
         IN jsonify("array",
                    <<<<"Weekday", "Presence (s)">>>> \o
                    [w \in 1..7 |-> <<day_abbr[w], SeqSum(weekdays[w - 1])>>])

\* lines 125-141
presence_start_end_view(d, user_id, order) ==
    IF user_id \notin DOMAIN d THEN NotFound(user_id)
    ELSE LET weekdays == group_start_end_by_weekday(d[user_id], order)
         IN jsonify("array",
                    [w \in 1..7 |-> <<day_abbr[w], mean(weekdays[w - 1].start),
                                      mean(weekdays[w - 1].end)>>])

\* lines 150-164
weekly_mean_presence_view(d, user_id, order) ==
    IF user_id \notin DOMAIN d THEN NotFound(user_id)
    ELSE LET weekdays == group_by_weekday(d[user_id], order)
             hours    == sum_intervals([w \in 1..7 |-> mean(weekdays[w - 1])])
         IN jsonify("array", << <<"Activity", "Total hours">>,
                                <<"Worked hours", hours[1]>>,
                                <<"Off hours", hours[2]>> >>)

MaxViewRows == 2

\* what the view's call of get_data() can give: a table loaded from some
\* file, or the exception of a failed load
Loaded ==
    {get_data(f) : f \in FilesUpTo(MaxViewRows)}
        \cup {[kind |-> "IOError", table |-> EmptyDict]}

ViewIdle ==
    /\ request = [view |-> "", user_id |-> 0,
                  loaded |-> [kind |-> "none", table |-> EmptyDict]]
    /\ response = NoResponse

ViewInit ==
    /\ request \in [view : Views, user_id : UserIds, loaded : Loaded]
    /\ response = NoResponse

\* GET /api/v1/mean_time_weekday/<user_id>
MeanTimeWeekday ==
    /\ request.view = "mean_time_weekday" /\ response.status = 0
    /\ IF request.loaded.kind # "table"
       THEN response' = ServerError(request.loaded.kind)
       ELSE \E order \in UserOrders(request.loaded.table, request.user_id) :
               response' = mean_time_weekday_view(request.loaded.table,
                                                  request.user_id, order)
    /\ UNCHANGED request
    /\ UNCHANGED notViews

\* GET /api/v1/presence_weekday/<user_id>
PresenceWeekday ==
    /\ request.view = "presence_weekday" /\ response.status = 0
    /\ IF request.loaded.kind # "table"
       THEN response' = ServerError(request.loaded.kind)
       ELSE \E order \in UserOrders(request.loaded.table, request.user_id) :
               response' = presence_weekday_view(request.loaded.table,
                                                 request.user_id, order)
    /\ UNCHANGED request
    /\ UNCHANGED notViews

\* GET /api/v1/presence_start_end/<user_id>
PresenceStartEnd ==
    /\ request.view = "presence_start_end" /\ response.status = 0
    /\ IF request.loaded.kind # "table"
       THEN response' = ServerError(request.loaded.kind)
       ELSE \E order \in UserOrders(request.loaded.table, request.user_id) :
               response' = presence_start_end_view(request.loaded.table,
                                                   request.user_id, order)
    /\ UNCHANGED request
    /\ UNCHANGED notViews

\* GET /api/v1/weekly_mean_presence/<user_id>
WeeklyMeanPresence ==
    /\ request.view = "weekly_mean_presence" /\ response.status = 0
    /\ IF request.loaded.kind # "table"
       THEN response' = ServerError(request.loaded.kind)
       ELSE \E order \in UserOrders(request.loaded.table, request.user_id) :
               response' = weekly_mean_presence_view(request.loaded.table,
                                                     request.user_id, order)
    /\ UNCHANGED request
    /\ UNCHANGED notViews

ViewNext ==
    MeanTimeWeekday \/ PresenceWeekday \/ PresenceStartEnd \/ WeeklyMeanPresence

-----------------------------------------------------------------------------
(* The statistics helpers called on their own.                             *)

MaxItems == 3

MaxDates == 2

MeanVals == {-6, 0, 3, 5, 8}

DurVals == {-60, 0, 27, 56, 3900, 6300, 168 * 3600}

SeqsUpTo(S, n) == UNION {[1..k -> S] : k \in 0..n}

DateSet ==
    {[year |-> 2013, month |-> 9, day |-> 9],
     [year |-> 2013, month |-> 9, day |-> 10],
     [year |-> 2013, month |-> 9, day |-> 15],
     [year |-> 2013, month |-> 9, day |-> 16],
     [year |-> 2016, month |-> 3, day |-> 1]}

TimeSet ==
    {[hour |-> 0, minute |-> 0, second |-> 0],
     [hour |-> 9, minute |-> 39, second |-> 5],
     [hour |-> 17, minute |-> 59, second |-> 52]}

ItemTables ==
    UNION {[D -> [start : TimeSet, end : TimeSet]] :
              D \in {X \in SUBSET DateSet : Cardinality(X) <= MaxDates}}

StatCall(fn, arg) == [fn |-> fn, arg |-> arg, res |-> <<>>, done |-> FALSE]

StatIdle == stat = StatCall("", <<>>)

StatInit ==
    \/ \E a \in SeqsUpTo(MeanVals, MaxItems) : stat = StatCall("mean", a)
    \/ \E a \in SeqsUpTo(DurVals, MaxItems) : stat = StatCall("sum_intervals", a)
    \/ \E a \in ItemTables : stat = StatCall("group_by_weekday", a)

CallMean ==
    /\ stat.fn = "mean" /\ ~stat.done
    /\ stat' = [stat EXCEPT !.res = mean(stat.arg), !.done = TRUE]
    /\ UNCHANGED notStats

CallSumIntervals ==
    /\ stat.fn = "sum_intervals" /\ ~stat.done
    /\ stat' = [stat EXCEPT
                   !.res = sum_intervals([k \in DOMAIN stat.arg |->
                                              Rat(stat.arg[k], 1)]),
                   !.done = TRUE]
    /\ UNCHANGED notStats

CallGroupByWeekday ==
    /\ stat.fn = "group_by_weekday" /\ ~stat.done
    /\ \E order \in Orders(stat.arg) :
           stat' = [stat EXCEPT !.res = group_by_weekday(stat.arg, order),
                                !.done = TRUE]
    /\ UNCHANGED notStats

StatNext == CallMean \/ CallSumIntervals \/ CallGroupByWeekday

LoaderSpecInit == LoaderInit /\ CacheIdle /\ ViewIdle /\ StatIdle

CacheSpecInit == CacheInit /\ LoaderIdle /\ ViewIdle /\ StatIdle

ViewSpecInit == ViewInit /\ LoaderIdle /\ CacheIdle /\ StatIdle

StatSpecInit == StatInit /\ LoaderIdle /\ CacheIdle /\ ViewIdle

SpecLoader == LoaderSpecInit /\ [][LoaderNext]_vars

SpecCache == CacheSpecInit /\ [][CacheNext]_vars

SpecViews == ViewSpecInit /\ [][ViewNext]_vars

SpecStats == StatSpecInit /\ [][StatNext]_vars

-----------------------------------------------------------------------------
(* Properties of the loader.                                               *)

WellFormed(row) ==
    /\ Len(row) = 4
    /\ ParseInt(row[1]).ok
    /\ ParseDate(row[2]).ok
    /\ ParseTime(row[3]).ok
    /\ ParseTime(row[4]).ok

RECURSIVE ExpectedTable(_)
ExpectedTable(rows) ==
    IF rows = <<>> THEN EmptyDict
    ELSE LET r    == rows[Len(rows)]
             rest == ExpectedTable(SubSeq(rows, 1, Len(rows) - 1))
         IN IF WellFormed(r)
            THEN SetEntry(rest, ParseInt(r[1]).val, ParseDate(r[2]).val,
                          ParseTime(r[3]).val, ParseTime(r[4]).val)
            ELSE rest

\* C1: after any prefix of the file, and at return, the table holds exactly
\* the entries of the rows that have 4 fields and parse; a row with another
\* field count or with a field that fails to parse adds and changes nothing.
C1_OnlyWellFormedRows ==
    status \in {"reading", "returned"}
        => data = ExpectedTable(SubSeq(csvfile, 1, rowno))

\* C2: a load fails only when the file cannot be opened; row content never
\* makes it fail, and it ends by returning the table of its well-formed rows.
C2_OnlyOpenFails ==
    /\ status \in {"IOError", "NameError"} => ~readable
    /\ status = "returned" => DOMAIN ExpectedTable(csvfile) \subseteq DOMAIN data

-----------------------------------------------------------------------------
(* Properties of the lock and the cache.                                   *)

InSection(t) == pc[t] \in {"inner", "check", "hit", "call", "reading", "store", "return"}

\* C3: at most one thread at a time is inside "check staleness, possibly run
\* the producer, store the entry"; the producer never runs in two threads.
C3_MutualExclusion ==
    \A t, u \in Threads : (InSection(t) /\ InSection(u)) => t = u

\* C4: the cache holds for the key no entry, or a complete entry whose data
\* and time come from one and the same producer invocation.
C4_EntryComplete ==
    Key \in DOMAIN CACHE =>
        /\ DOMAIN CACHE[Key] = {"data", "time"}
        /\ CACHE[Key] \in invlog

C4_Witness ==
    \E t, u \in Threads :
        /\ t # u
        /\ pc[t] = "store" /\ pc[u] = "return"
        /\ Key \in DOMAIN CACHE
        /\ CACHE[Key].data = result[u]
        /\ result[t] # result[u]
        /\ current_time[t] # current_time[u]

\* C5: a call made while the entry is younger than the duration goes to the
\* cached branch, returns the stored data, does not run the producer and
\* leaves the entry as it is, whatever the file holds by then.
C5_FreshCallKeepsEntry ==
    [][\A t \in Threads :
         /\ (/\ pc[t] = "check" /\ pc'[t] # "check"
             /\ Key \in DOMAIN CACHE
             /\ current_time[t] - CACHE[Key].time < Duration)
                => (pc'[t] = "hit" /\ CACHE' = CACHE /\ invlog' = invlog)
         /\ (pc[t] = "hit" /\ pc'[t] # "hit")
                => /\ outcome'[t].kind = "table"
                   /\ outcome'[t].table = CACHE[Key].data
                   /\ CACHE' = CACHE /\ invlog' = invlog
                   /\ opened[t] = <<>>]_vars

C5_Witness ==
    \E t \in Threads :
        /\ pc[t] = "idle" /\ calls >= 2
        /\ outcome[t].via = "cache"
        /\ Key \in DOMAIN CACHE /\ CACHE[Key].data = outcome[t].table
        /\ disk.ok /\ DiskLoad[disk.rows].kind = "table"
        /\ DiskLoad[disk.rows].table # outcome[t].table

\* C6 as stated: the producer runs exactly when there is no entry or the
\* elapsed time exceeds the duration; at elapsed = duration the stored data
\* is returned.
C6_ReloadOnlyWhenExceeded ==
    [][\A t \in Threads :
         (pc[t] = "check" /\ pc'[t] # "check")
            => (pc'[t] = "call" <=>
                    (\/ Key \notin DOMAIN CACHE
                     \/ current_time[t] - CACHE[Key].time > Duration))]_vars

\* C6 amended: the producer runs exactly when there is no entry or the
\* elapsed time is at least the duration; when it returns, the entry becomes
\* {data: its result, time: the current_time read at the start of the call};
\* otherwise the stored data is returned and the entry is not changed.
C6_ReloadWhenReached ==
    [][/\ \A t \in Threads :
            /\ (pc[t] = "check" /\ pc'[t] # "check")
                  => /\ pc'[t] \in {"call", "hit"}
                     /\ pc'[t] = "call" <=>
                            (\/ Key \notin DOMAIN CACHE
                             \/ current_time[t] - CACHE[Key].time >= Duration)
            /\ (pc[t] = "store" /\ pc'[t] # "store")
                  => CACHE' = Put(CACHE, Key, [data |-> result[t],
                                               time |-> current_time[t]])
            /\ (pc[t] = "hit" /\ pc'[t] # "hit")
                  => outcome'[t].table = CACHE[Key].data /\ CACHE' = CACHE
       /\ CACHE' # CACHE => \E t \in Threads : pc[t] = "store"]_vars

C6_Witness ==
    \E t \in Threads :
        /\ pc[t] = "store"
        /\ Key \in DOMAIN CACHE
        /\ current_time[t] - CACHE[Key].time = Duration
        /\ \A u \in Threads : u # t => pc[u] = "idle"

-----------------------------------------------------------------------------
(* Properties of the views and of the statistics helpers.                  *)

\* C7: whenever get_data gave a table, each of the four views answers with
\* status 200; for a user_id that is not a key of the table the body is the
\* object {status: 404, message: 'User <id> not found!'} and no report, and
\* for a user_id that is a key the body is the report array.
C7_NotFoundConvention ==
    (response.status # 0 /\ request.loaded.kind = "table") =>
        /\ response.status = 200
        /\ response.mimetype = "application/json"
        /\ IF request.user_id \in DOMAIN request.loaded.table
           THEN /\ response.body.type = "array"
                /\ Len(response.body.value) \in {3, 7, 8}
           ELSE /\ response.body.type = "object"
                /\ response.body.value.status = 404
                /\ Len(response.body.value.message) = 3
                /\ response.body.value.message[1] = "User "
                /\ ParseInt(response.body.value.message[2]).val = request.user_id
                /\ response.body.value.message[3] = " not found!"

C7_Witness ==
    /\ request.view = "weekly_mean_presence"
    /\ request.loaded.kind = "table"
    /\ DOMAIN request.loaded.table # {}
    /\ request.user_id \notin DOMAIN request.loaded.table
    /\ response.body.type = "object"

\* weekdays of the dates of DateSet, from the calendar
CalendarWeekday(dt) ==
    CASE dt = [year |-> 2013, month |-> 9, day |-> 9]  -> 0
      [] dt = [year |-> 2013, month |-> 9, day |-> 10] -> 1
      [] dt = [year |-> 2013, month |-> 9, day |-> 15] -> 6
      [] dt = [year |-> 2013, month |-> 9, day |-> 16] -> 0
      [] dt = [year |-> 2016, month |-> 3, day |-> 1]  -> 1

Count(S) == Cardinality(S)

\* C8: group_by_weekday gives 7 buckets, 0 = Monday .. 6 = Sunday; every
\* date puts one value, seconds(end) - seconds(start), negative or not, into
\* the bucket of its weekday and into no other; the bucket sizes add up to
\* the number of dates.
C8_GroupByWeekday ==
    (stat.fn = "group_by_weekday" /\ stat.done) =>
        LET items == stat.arg
            res   == stat.res
            Secs(t) == t.hour * 3600 + t.minute * 60 + t.second
            Val(d)  == Secs(items[d].end) - Secs(items[d].start)
        IN /\ DOMAIN res = 0..6
           /\ SeqSum([w \in 1..7 |-> Len(res[w - 1])]) = Count(DOMAIN items)
           /\ \A w \in 0..6 :
                 \A v \in {Val(d) : d \in DOMAIN items} \cup Range(res[w]) :
                     Count({k \in DOMAIN res[w] : res[w][k] = v})
                       = Count({d \in DOMAIN items :
                                    CalendarWeekday(d) = w /\ Val(d) = v})

C8_Witness ==
    /\ stat.fn = "group_by_weekday" /\ stat.done
    /\ \E w \in 0..6 :
          /\ Len(stat.res[w]) = 2
          /\ \E k \in 1..2 : stat.res[w][k] < 0

\* the decimal number "H.M" for a duration of S seconds
Render(S) ==
    LET H   == S \div 3600
        M   == (S % 3600) \div 60
        mag == Abs(H) * 100 + (IF M < 10 THEN M * 10 ELSE M)
    IN Rat(IF H < 0 THEN 0 - mag ELSE mag, 100)

\* C9: for whole-second durations with total S, sum_intervals gives
\* (render(S), render(168h - S)); S = 0 gives off-hours 168.0, S = 168h
\* gives (168.0, 0.0), and 1 hour 45 minutes renders as 1.45.
C9_SumIntervals ==
    (stat.fn = "sum_intervals" /\ stat.done) =>
        LET S == SeqSum(stat.arg)
        IN /\ stat.res = <<Render(S), Render(168 * 3600 - S)>>
           /\ S = 0 => stat.res[2] = [num |-> 168, den |-> 1]
           /\ S = 168 * 3600 => stat.res = <<[num |-> 168, den |-> 1],
                                             [num |-> 0, den |-> 1]>>
           /\ S = 6300 => stat.res[1] = [num |-> 29, den |-> 20]

C9_Witness ==
    /\ stat.fn = "sum_intervals" /\ stat.done
    /\ Len(stat.arg) = 2
    /\ SeqSum(stat.arg) = 168 * 3600 + 6300
    /\ stat.res[2].num < 0

-----------------------------------------------------------------------------
(* Further properties of the loader and of the cache.                      *)

\* the last well-formed row for the user and date of row k among the first
\* n rows
LastFor(rows, n, k) ==
    CHOOSE j \in 1..n :
        /\ WellFormed(rows[j])
        /\ ParseInt(rows[j][1]).val = ParseInt(rows[k][1]).val
        /\ ParseDate(rows[j][2]).val = ParseDate(rows[k][2]).val
        /\ \A i \in (j + 1)..n :
              ~(/\ WellFormed(rows[i])
                /\ ParseInt(rows[i][1]).val = ParseInt(rows[k][1]).val
                /\ ParseDate(rows[i][2]).val = ParseDate(rows[k][2]).val)

\* C11: for every user_id and date that has well-formed rows, the table
\* holds one entry, with the start and end of the last such row in file
\* order, whatever other rows stand between or after the duplicates.
C11_LastRowWins ==
    status \in {"reading", "returned"} =>
        \A k \in 1..rowno :
            WellFormed(csvfile[k]) =>
                LET u == ParseInt(csvfile[k][1]).val
                    d == ParseDate(csvfile[k][2]).val
                    r == csvfile[LastFor(csvfile, rowno, k)]
                IN /\ u \in DOMAIN data
                   /\ d \in DOMAIN data[u]
                   /\ data[u][d] = [start |-> ParseTime(r[3]).val,
                                    end   |-> ParseTime(r[4]).val]

\* C12: a call that has to run the producer while the file cannot be opened
\* ends with the IOError at the caller, and none of its steps changes the
\* cache: a missing entry stays missing, an expired entry keeps its data and
\* time; no empty table is stored under the key or returned as a result.
C12_OpenFailureKeepsCache ==
    [][/\ \A t \in Threads :
            /\ (pc[t] = "call" /\ pc'[t] # "call" /\ ~disk.ok)
                  => /\ pc'[t] = "idle"
                     /\ outcome'[t].kind = "IOError"
                     /\ outcome'[t].via = "producer"
                     /\ CACHE' = CACHE /\ invlog' = invlog
            /\ (pc[t] \in {"idle", "inner", "check", "call"} /\ pc'[t] # pc[t])
                  => CACHE' = CACHE
            /\ outcome'[t].kind = "table" => outcome'[t].table # EmptyDict
       /\ Key \in DOMAIN CACHE' => CACHE'[Key].data # EmptyDict]_vars

\* a call failed on the missing file while an expired entry was stored, and
\* the entry still has the data and time of the earlier reload
C12_Witness ==
    \E t, u \in Threads :
        /\ t # u /\ pc[t] = "idle" /\ pc[u] = "idle"
        /\ outcome[t].kind = "IOError"
        /\ outcome[u].kind = "table" /\ outcome[u].via = "producer"
        /\ ~disk.ok
        /\ Key \in DOMAIN CACHE
        /\ CACHE[Key] = [data |-> outcome[u].table, time |-> 0]
        /\ clock - CACHE[Key].time >= Duration
        /\ calls = 2

\* C13: the time of the cache entry never decreases: an entry is only ever
\* replaced by an entry whose time is greater than or equal to its own, also
\* when two threads reload at once.
C13_EntryTimeMonotone ==
    [][(Key \in DOMAIN CACHE /\ Key \in DOMAIN CACHE')
          => CACHE'[Key].time >= CACHE[Key].time]_vars

====
